---- MODULE Spec2Model ----
(***************************************************************************)
(* gpx-sunheadinger: the pass of main() over the tracks, segments and      *)
(* points of a GPX file (src/main.go, lines 118-317).                      *)
(*                                                                         *)
(* Numbers.  Angles and elevations are float64 degrees in the program;    *)
(* here they are fixed-point, in units of 1/Scale degree, and rounded as   *)
(* float64 rounds where the program adds to them.  Timestamps and          *)
(* durations are whole seconds.  Quartiles are kept doubled (a median of   *)
(* an even number of values is the mean of the two middle ones).           *)
(*                                                                         *)
(* Input.  The GPX file is revealed point by point as the loops reach it:  *)
(* a point is [t, lat, lon].  The bearing of a pair and the ephemeris'     *)
(* answer for a point are functions of the input that the model cannot     *)
(* compute (trigonometry); their results are drawn when the program        *)
(* computes them and recorded with the pair in `samples`.                  *)
(***************************************************************************)
EXTENDS Integers, Sequences, FiniteSets

\* ------------------------------------------------------------- bounds
\* Resolution of the fixed-point angles: units per degree.
Scale == 10
\* Input tracks per file, input segments per track, points per segment,
\* and points per file.
MaxTracks == 2
MaxSegments == 2
MaxPoints == 3
MaxTotalPoints == 4

\* ------------------------------------------------- program constants
\* Number of one-degree buckets of each histogram (make([]float64, 360)).
NumBuckets == 360
\* time.ParseDuration("10s")
DefaultPauseSeconds == 10
\* deep sun is sun impact below 15 degrees elevation
DeepSunElevation == 15
\* blinding sun is deep sun and +-30 degrees heading
BlindingAngle == 30

\* SunState (iota)
SunDowned == 0
SunLow == 1
SunBlinding == 2
SunUp == 3
Unknown == 4

SunStates == {SunDowned, SunLow, SunBlinding, SunUp, Unknown}

Buckets == 0 .. (NumBuckets - 1)

\* ------------------------------------------------------ input domains
\* os.Args[2]: the default, or a threshold given on the command line.
PauseChoices == {DefaultPauseSeconds, 60}
\* Seconds from a point to the next one in the file.
Gaps == {5, 60}
\* The same for a file that is not in the order of its timestamps.
UnorderedGaps == Gaps \cup {-5}
\* Timestamp of a segment's first point.
StartTimes == {0}
\* Latitudes (a southern and a northern one) and longitudes, in degrees.
\* Of a latitude the model uses the sign only.
Latitudes == {-1, 1}
Longitudes == {0, 1}
\* Azimuths the ephemeris returns (radiansToDegrees of an angle in
\* (-pi, pi]).
Azimuths == {-90 * Scale}
\* Elevations the ephemeris returns.
Elevations == {-1 * Scale, 0, 10 * Scale, 20 * Scale}
\* Bearing of a pair as atan2 yields it, in (-180, 180] degrees, with the
\* elevation of the sun at the pair's second point.  A bearing of exactly
\* 0 needs sin(deltaLambda) * cos(phi2) to underflow to 0.
HeadingEast == (75 * Scale) + (Scale \div 2)
Observations ==
  {[theta |-> 0, el |-> el] : el \in Elevations}
  \cup {[theta |-> HeadingEast, el |-> 10 * Scale]}

\* Bearings atan2 yields, in (-180, 180] degrees, and azimuths the
\* ephemeris returns, in (-180, 180] degrees too: both signs, zero, the
\* ends of the range and values one unit apart.
AngleThetas ==
  {-90 * Scale, -1, 0, 1, 45 * Scale, 90 * Scale, (90 * Scale) + 1,
   180 * Scale}
AngleAzimuths ==
  {1 - (180 * Scale), -90 * Scale, -1, 0, 1, 90 * Scale, 180 * Scale}

\* ------------------------------------------------------------ helpers
\* math.Mod(x, y) for y > 0: the result has the sign of x.
Mod(x, y) == IF x >= 0 THEN x % y ELSE -((-x) % y)

\* float64 is denser near 0 than near 360: the doubles from 256 up to 512
\* lie twice as far apart as those from 128 up to 256.  The fixed-point
\* angles keep that: below FloatCoarseFrom degrees every multiple of
\* 1/Scale degree is a value, from there on only every second one is.
FloatCoarseFrom == 256

\* The result of a float64 addition or subtraction whose exact value is
\* v: the nearest value, a tie going to the one with the even significand
\* (IEEE 754 round-half-to-even).
RoundToFloat(v) ==
  LET a == IF v < 0 THEN -v ELSE v
      r == IF (a < FloatCoarseFrom * Scale) \/ (a % 2 = 0) THEN a
           ELSE IF ((a - 1) \div 2) % 2 = 0 THEN a - 1 ELSE a + 1
  IN  IF v < 0 THEN -r ELSE r

\* "normalize to 360": math.Mod (which is exact), then 360 + v when
\* v < 0 (which is rounded).
Normalize360(v) ==
  LET m == Mod(v, 360 * Scale)
  IN  IF m < 0 THEN RoundToFloat((360 * Scale) + m) ELSE m

\* int(sunImpactAngle): truncation of a non-negative float to its degree.
BucketOf(angle) == angle \div Scale

\* "orientation fix for hemisphere" and normalisation of the azimuth.
FixAzimuth(az, lat) ==
  Normalize360(IF lat > 0 THEN RoundToFloat(az + (180 * Scale)) ELSE az)

\* The operands of the subtraction swapped.
ImpactAngleSwapped(sunAzimuth, carHeading) ==
  Normalize360(carHeading - sunAzimuth)

\* "calc sun impact relative to direction of car"
ImpactAngle(sunAzimuth, carHeading) ==
  Normalize360(RoundToFloat(sunAzimuth - carHeading))

\* The sun state of a sample: the branch of main taken for it.
Classify(el, impact) ==
  IF el < 0 THEN SunDowned
  ELSE IF (el > 0) /\ (el < DeepSunElevation * Scale)
       THEN IF (impact < BlindingAngle * Scale)
               \/ (impact > (360 - BlindingAngle) * Scale)
            THEN SunBlinding ELSE SunLow
       ELSE SunUp

\* SunState.hasChanged on the global currentSunState: the value returned
\* and the value of currentSunState afterwards.
HasChangedNoCommit(cur, new) ==
  [ret |-> cur # new, state |-> cur]

HasChanged(cur, new) ==
  IF cur = new
  THEN [ret |-> FALSE, state |-> cur]
  ELSE [ret |-> TRUE, state |-> new]

\* make([]float64, 360)
ZeroBuckets == [b \in Buckets |-> 0]

\* The buckets of a that hold something; every other bucket holds 0.
Support(a) == {b \in Buckets : a[b] # 0}

RECURSIVE SumOver(_, _)
SumOver(a, bs) ==
  IF bs = {} THEN 0
  ELSE LET b == CHOOSE c \in bs : TRUE
       IN  a[b] + SumOver(a, bs \ {b})
\* stats.Sum: the sum of all buckets (the empty ones add 0).
Sum(a) == SumOver(a, Support(a))

\* The values held by the buckets of a, given the buckets that hold
\* something.
ValuesOf(a, supp) ==
  {a[b] : b \in supp} \cup (IF Cardinality(supp) < NumBuckets THEN {0} ELSE {})

MaxOf(a, supp) ==
  CHOOSE v \in ValuesOf(a, supp) : \A w \in ValuesOf(a, supp) : w <= v
\* stats.Max, slices.Max
Max(a) == MaxOf(a, Support(a))

\* How many buckets of a hold less than v, and at most v.
Below(a, supp, v) ==
  Cardinality({b \in supp : a[b] < v})
  + (IF 0 < v THEN NumBuckets - Cardinality(supp) ELSE 0)
AtMost(a, supp, v) ==
  Cardinality({b \in supp : a[b] <= v})
  + (IF 0 <= v THEN NumBuckets - Cardinality(supp) ELSE 0)

\* The k-th smallest (k = 1 .. NumBuckets) of the values of a: element
\* k-1 of the sorted copy.
KthOf(a, supp, k) ==
  CHOOSE v \in ValuesOf(a, supp) :
    /\ Below(a, supp, v) < k
    /\ AtMost(a, supp, v) >= k

\* stats.Quartile on an input of even length: Q1 is the median of the
\* lower half, Q2 of the whole, Q3 of the upper half; each the mean of
\* two middle values, kept doubled.
QuartileOf(a, supp) ==
  LET h == NumBuckets \div 2
      q == h \div 2
  IN  [Q1 |-> KthOf(a, supp, q) + KthOf(a, supp, q + 1),
       Q2 |-> KthOf(a, supp, h) + KthOf(a, supp, h + 1),
       Q3 |-> KthOf(a, supp, h + q) + KthOf(a, supp, h + q + 1)]
Quartile(a) == QuartileOf(a, Support(a))

\* stats.InterQuartileRange (doubled): Q3 - Q1 of the quartiles.
InterQuartileRange(quartiles) == quartiles.Q3 - quartiles.Q1

\* n / d rounded to the nearest whole number, d > 0.
Round(n, d) == ((2 * n) + d) \div (2 * d)

\* A float64 division as it is formatted with two decimals: IEEE 754
\* gives NaN for 0/0 and an infinity for x/0, and no panic.
FloatDiv(n, d) ==
  IF d = 0
  THEN IF n = 0 THEN [cls |-> "NaN", hundredths |-> 0]
       ELSE IF n > 0 THEN [cls |-> "+Inf", hundredths |-> 0]
       ELSE [cls |-> "-Inf", hundredths |-> 0]
  ELSE IF d > 0 THEN [cls |-> "finite", hundredths |-> Round(100 * n, d)]
  ELSE [cls |-> "finite", hundredths |-> Round(-100 * n, -d)]

\* ------------------------------------------------------------- state
VARIABLES
  sunImpactDistribution,
  sunImpactDistributionTime,
  deepSunImpactDistributionTime,
  blindingSunImpactDistributionTime,
  finished,              \* history: input and result of every segment
  summary,               \* what the last finished segment published
  gpxOutput,             \* gpxOutput.Tracks
  csvHeadings,           \* rows written to the segment's raw csv file
  calls,                 \* history: hasChanged calls, argument and result
  trackStartStates,      \* history: currentSunState as each track began
  totalPoints,           \* points of the file read so far
  trackIndex,            \* index of the input track being processed
  segIndex,              \* index of the input segment being processed
  points,                \* Points[0 .. pointIndex] of that segment
  samples,               \* per pair of that segment: what main computed
  currentSunState,       \* the global of that name
  pauseDetectDuration,   \* the pause threshold, in seconds
  pc                     \* position of main in its loops

histograms ==
  <<sunImpactDistribution, sunImpactDistributionTime,
    deepSunImpactDistributionTime, blindingSunImpactDistributionTime>>

vars ==
  <<pauseDetectDuration, pc, currentSunState, trackIndex, segIndex, points,
    samples, totalPoints, sunImpactDistribution, sunImpactDistributionTime,
    deepSunImpactDistributionTime, blindingSunImpactDistributionTime,
    csvHeadings, gpxOutput, summary, finished, calls, trackStartStates>>

NoSummary == [published |-> FALSE]

\* `var currentSunState SunState`: the zero value.
InitialSunState == SunDowned

Init ==
  /\ pauseDetectDuration \in PauseChoices
  /\ pc = "start"
  /\ currentSunState = InitialSunState
  /\ trackIndex = -1
  /\ segIndex = -1
  /\ points = <<>>
  /\ samples = <<>>
  /\ totalPoints = 0
  /\ sunImpactDistribution = ZeroBuckets
  /\ sunImpactDistributionTime = ZeroBuckets
  /\ deepSunImpactDistributionTime = ZeroBuckets
  /\ blindingSunImpactDistributionTime = ZeroBuckets
  /\ csvHeadings = <<>>
  /\ gpxOutput = <<>>
  /\ summary = NoSummary
  /\ finished = <<>>
  /\ calls = <<>>
  /\ trackStartStates = <<>>

\* ------------------------------------------------------ output track
\* A point of the input file, as the output refers to it.
PointId(t, s, p) == <<t, s, p>>
\* previousPoint == nil
NoPoint == <<>>

\* previousPoint is dropped: the new track starts empty.
NextTrackNoBoundary(number, state, previousPoint) ==
  [number |-> number, label |-> state, segments |-> <<>>]

\* The track opened at the start of an input track is not labelled with
\* the current state.
NextTrackUnknownAtStart(number, state, previousPoint) ==
  [number |-> number,
   label |-> IF previousPoint = NoPoint THEN Unknown ELSE state,
   segments |-> IF previousPoint = NoPoint THEN <<>>
                ELSE << <<previousPoint>> >>]

\* nextTrack: a track labelled with the current sun state, holding one
\* segment with previousPoint when there is one (nextSegment).
NextTrack(number, state, previousPoint) ==
  [number |-> number,
   label |-> state,
   segments |-> IF previousPoint = NoPoint THEN <<>>
                ELSE << <<previousPoint>> >>]

\* gpx.GPX.AppendPoint: to the last segment of the last track; a track or
\* a segment is created when there is none.
AppendPoint(tracks, p) ==
  LET ts == IF Len(tracks) = 0
            THEN <<[number |-> 0, label |-> Unknown, segments |-> <<>>]>>
            ELSE tracks
      n == Len(ts)
      segs == IF Len(ts[n].segments) = 0 THEN << <<>> >> ELSE ts[n].segments
      m == Len(segs)
  IN  [ts EXCEPT ![n].segments = [segs EXCEPT ![m] = Append(segs[m], p)]]

\* currentSunState.hasChanged(new) followed, when it returns true, by
\* gpxOutput.AppendTrack(nextTrack(trackIndex, gpxFile, &Points[pointIndex-1])),
\* and then gpxOutput.AppendPoint(&Points[pointIndex]).
ChangeAndAppend(new, prevId, curId) ==
  LET r == HasChanged(currentSunState, new)
      opened == IF r.ret
                THEN Append(gpxOutput, NextTrack(trackIndex, r.state, prevId))
                ELSE gpxOutput
  IN  /\ currentSunState' = r.state
      /\ calls' = Append(calls, [arg |-> new, ret |-> r.ret])
      /\ gpxOutput' = AppendPoint(opened, curId)

\* ------------------------------------------------------------ actions
\* currentSunState.hasChanged(Unknown), before the loop over the tracks.
Start ==
  /\ pc = "start"
  /\ LET r == HasChanged(currentSunState, Unknown)
     IN  /\ currentSunState' = r.state
         /\ calls' = Append(calls, [arg |-> Unknown, ret |-> r.ret])
  /\ pc' = "tracks"
  /\ UNCHANGED <<pauseDetectDuration, trackIndex, segIndex, points, samples,
                 totalPoints, histograms, csvHeadings, gpxOutput, summary,
                 finished, trackStartStates>>

\* for trackIndex := range gpxFile.Tracks:
\* gpxOutput.AppendTrack(nextTrack(trackIndex, gpxFile, nil)).
\* When the file holds no further track, main ends at pc = "tracks" (it
\* writes gpxOutput to the output file).
BeginTrack ==
  /\ pc = "tracks"
  /\ trackIndex + 1 < MaxTracks
  /\ totalPoints < MaxTotalPoints
  /\ trackIndex' = trackIndex + 1
  /\ segIndex' = -1
  /\ gpxOutput' =
       Append(gpxOutput, NextTrack(trackIndex + 1, currentSunState, NoPoint))
  /\ trackStartStates' = Append(trackStartStates, currentSunState)
  /\ pc' = "segments"
  /\ UNCHANGED <<pauseDetectDuration, currentSunState, points, samples,
                 totalPoints, histograms, csvHeadings, summary, finished,
                 calls>>

\* A variant that allocates the buckets once, outside the loop.
BeginSegmentNoReset ==
  /\ pc = "segments"
  /\ segIndex + 1 < MaxSegments
  /\ totalPoints < MaxTotalPoints
  /\ segIndex' = segIndex + 1
  /\ points' = <<>>
  /\ samples' = <<>>
  /\ csvHeadings' = <<>>
  /\ pc' = "points"
  /\ UNCHANGED <<pauseDetectDuration, currentSunState, trackIndex,
                 totalPoints, histograms, gpxOutput, summary, finished, calls,
                 trackStartStates>>

\* for segIndex := range Segments: "initialize data buckets", and a new
\* raw csv file (its heading row is not modelled).
BeginSegment ==
  /\ pc = "segments"
  /\ segIndex + 1 < MaxSegments
  /\ totalPoints < MaxTotalPoints
  /\ segIndex' = segIndex + 1
  /\ points' = <<>>
  /\ samples' = <<>>
  /\ sunImpactDistribution' = ZeroBuckets
  /\ sunImpactDistributionTime' = ZeroBuckets
  /\ deepSunImpactDistributionTime' = ZeroBuckets
  /\ blindingSunImpactDistributionTime' = ZeroBuckets
  /\ csvHeadings' = <<>>
  /\ pc' = "points"
  /\ UNCHANGED <<pauseDetectDuration, currentSunState, trackIndex,
                 totalPoints, gpxOutput, summary, finished, calls,
                 trackStartStates>>

\* The loop over the segments of the track is over (the tracks of the
\* input hold at least one segment).
EndTrack ==
  /\ pc = "segments"
  /\ segIndex >= 0
  /\ pc' = "tracks"
  /\ UNCHANGED <<pauseDetectDuration, currentSunState, trackIndex, segIndex,
                 points, samples, totalPoints, histograms, csvHeadings,
                 gpxOutput, summary, finished, calls, trackStartStates>>

\* ---------------------------------------------------- the point loop
MorePoints ==
  /\ pc = "points"
  /\ Len(points) < MaxPoints
  /\ totalPoints < MaxTotalPoints

\* pointIndex of the point being read.
pointIndex == Len(points)

\* timegap := Points[pointIndex].Timestamp.Sub(Points[pointIndex-1].Timestamp)
Timegap(prev, cur) == cur.t - prev.t

\* "on gap being larger than threshold, ignore this value"
IsPauseInclusive(timegap, pause) == timegap >= pause

IsPause(timegap, pause) == timegap > pause

\* deltaLambda := lambda2 - lambda1, in degrees rather than radians.
DeltaLambda(prev, cur) == cur.lon - prev.lon

\* What main computed for a pair; 0 stands for what it did not compute.
Skipped(kind, timegap) ==
  [kind |-> kind, timegap |-> timegap, carHeading |-> 0, sunAzimuth |-> 0,
   sunElevation |-> 0, sunImpactAngle |-> 0, state |-> Unknown]

\* The latitudes a segment may lie on: the file stays on one side of the
\* equator.
FileLatitudes ==
  IF finished = <<>> THEN Latitudes ELSE {finished[1].points[1].lat}

\* pointIndex = 0: the body of the loop is skipped.
FirstPoint ==
  /\ MorePoints
  /\ pointIndex = 0
  /\ \E t \in StartTimes, lat \in FileLatitudes :
       points' = <<[t |-> t, lat |-> lat, lon |-> 0]>>
  /\ totalPoints' = totalPoints + 1
  /\ UNCHANGED <<pauseDetectDuration, pc, currentSunState, trackIndex,
                 segIndex, samples, histograms, csvHeadings, gpxOutput,
                 summary, finished, calls, trackStartStates>>

\* The points that may follow the last point read, given the gaps the
\* file may have.
NextPoints(gaps) ==
  LET prev == points[Len(points)]
  IN  {[t |-> prev.t + g, lat |-> prev.lat, lon |-> lon] :
         g \in gaps, lon \in Longitudes}

\* timegap > pauseDetectDuration: continue
SkipPauseOf(gaps) ==
  /\ MorePoints
  /\ pointIndex > 0
  /\ \E cur \in NextPoints(gaps) :
       LET timegap == Timegap(points[Len(points)], cur)
       IN  /\ IsPause(timegap, pauseDetectDuration)
           /\ points' = Append(points, cur)
           /\ samples' = Append(samples, Skipped("pause", timegap))
  /\ totalPoints' = totalPoints + 1
  /\ UNCHANGED <<pauseDetectDuration, pc, currentSunState, trackIndex,
                 segIndex, histograms, csvHeadings, gpxOutput, summary,
                 finished, calls, trackStartStates>>

\* deltaLambda == 0: continue
SkipNoMoveOf(gaps) ==
  /\ MorePoints
  /\ pointIndex > 0
  /\ \E cur \in NextPoints(gaps) :
       LET timegap == Timegap(points[Len(points)], cur)
       IN  /\ ~IsPause(timegap, pauseDetectDuration)
           /\ DeltaLambda(points[Len(points)], cur) = 0
           /\ points' = Append(points, cur)
           /\ samples' = Append(samples, Skipped("nomove", timegap))
  /\ totalPoints' = totalPoints + 1
  /\ UNCHANGED <<pauseDetectDuration, pc, currentSunState, trackIndex,
                 segIndex, histograms, csvHeadings, gpxOutput, summary,
                 finished, calls, trackStartStates>>

\* sunElevation < 0: "a sun that is set, it makes it to the graph but not
\* into the statistics".  Neither the heading nor the azimuth is used.
SunDownOf(gaps) ==
  /\ MorePoints
  /\ pointIndex > 0
  /\ \E cur \in NextPoints(gaps), el \in {o.el : o \in Observations} :
       LET timegap == Timegap(points[Len(points)], cur)
       IN  /\ ~IsPause(timegap, pauseDetectDuration)
           /\ DeltaLambda(points[Len(points)], cur) # 0
           /\ el < 0
           /\ points' = Append(points, cur)
           /\ samples' = Append(samples,
                [Skipped("down", timegap) EXCEPT
                   !.sunElevation = el, !.state = SunDowned])
           /\ ChangeAndAppend(SunDowned,
                PointId(trackIndex, segIndex, pointIndex - 1),
                PointId(trackIndex, segIndex, pointIndex))
  /\ totalPoints' = totalPoints + 1
  /\ UNCHANGED <<pauseDetectDuration, pc, trackIndex, segIndex, histograms,
                 csvHeadings, summary, finished, trackStartStates>>

\* a[b] = e instead of a[b] += e
AccumulateOverwrite(a, b, e) == [a EXCEPT ![b] = e]

\* The index is off by one bucket.
AccumulateNextBucket(a, b, e) ==
  [a EXCEPT ![(b + 1) % NumBuckets] = @ + e]

\* a[int(sunImpactAngle)] += e
Accumulate(a, b, e) == [a EXCEPT ![b] = @ + e]

\* A row is lost.
WriteRowKeepingLast(rows, row) == <<row>>

\* csvHeadingsWriter.Write of the sample's row ("write raw stuff").
WriteRow(rows, row) == Append(rows, row)

\* A sample whose sun is not set: the histograms, the state change, the
\* output point and the raw row.
SampleOf(gaps) ==
  /\ MorePoints
  /\ pointIndex > 0
  /\ \E cur \in NextPoints(gaps), obs \in Observations, az \in Azimuths :
       LET prev == points[Len(points)]
           theta == obs.theta
           el == obs.el
           timegap == Timegap(prev, cur)
           carHeading == Normalize360(theta)
           sunAzimuth == FixAzimuth(az, cur.lat)
           sunImpactAngle == ImpactAngle(sunAzimuth, carHeading)
           b == BucketOf(sunImpactAngle)
           sunImpactDurationSeconds == Timegap(prev, cur)
           state == Classify(el, sunImpactAngle)
           row == [timestamp |-> cur.t, timegap |-> timegap,
                   lat |-> cur.lat, lon |-> cur.lon,
                   carHeading |-> carHeading, sunAzimuth |-> sunAzimuth,
                   sunElevation |-> el, sunImpactAngle |-> sunImpactAngle]
       IN  /\ ~IsPause(timegap, pauseDetectDuration)
           /\ DeltaLambda(prev, cur) # 0
           /\ ~(el < 0)
           /\ points' = Append(points, cur)
           /\ samples' = Append(samples,
                [kind |-> "sample", timegap |-> timegap,
                 carHeading |-> carHeading, sunAzimuth |-> sunAzimuth,
                 sunElevation |-> el, sunImpactAngle |-> sunImpactAngle,
                 state |-> state])
           /\ sunImpactDistribution' = Accumulate(sunImpactDistribution, b, 1)
           /\ sunImpactDistributionTime' =
                Accumulate(sunImpactDistributionTime, b,
                           sunImpactDurationSeconds)
           /\ deepSunImpactDistributionTime' =
                IF state \in {SunLow, SunBlinding}
                THEN Accumulate(deepSunImpactDistributionTime, b,
                                sunImpactDurationSeconds)
                ELSE deepSunImpactDistributionTime
           /\ blindingSunImpactDistributionTime' =
                IF state = SunBlinding
                THEN Accumulate(blindingSunImpactDistributionTime, b,
                                sunImpactDurationSeconds)
                ELSE blindingSunImpactDistributionTime
           /\ ChangeAndAppend(state,
                PointId(trackIndex, segIndex, pointIndex - 1),
                PointId(trackIndex, segIndex, pointIndex))
           /\ csvHeadings' = WriteRow(csvHeadings, row)
  /\ totalPoints' = totalPoints + 1
  /\ UNCHANGED <<pauseDetectDuration, pc, trackIndex, segIndex, summary,
                 finished, trackStartStates>>

\* The pairs of a file that is in the order of its timestamps.
SkipPause == SkipPauseOf(Gaps)
SkipNoMove == SkipNoMoveOf(Gaps)
SunDown == SunDownOf(Gaps)
Sample == SampleOf(Gaps)

\* "compute quartiles" and the one-line summary of the segment.
Statistics(timeSums, blindingSums) ==
  LET quartiles == Quartile(timeSums)
      interQuartileRange == InterQuartileRange(quartiles)
      maxSunImpactTime == Max(timeSums)
      sumSunBlinding == Sum(blindingSums)
  IN  [quartiles |-> quartiles,
       interQuartileRange |-> interQuartileRange,
       maxSunImpactTime |-> maxSunImpactTime,
       sumSunBlinding |-> sumSunBlinding,
       \* maxSunImpactTime/interQuartileRange (the range is kept doubled)
       peakFactor |-> FloatDiv(2 * maxSunImpactTime, interQuartileRange),
       \* sumSunBlinding/60
       blindingMinutes |-> FloatDiv(sumSunBlinding, 60)]

\* The "normalized count" column of the histogram table, row b:
\* sunImpactDistribution[b]*100/maxSunImpactDistribution.
NormalizedCount(counts, maxSunImpactDistribution, b) ==
  FloatDiv(counts[b] * 100, maxSunImpactDistribution)

\* The points of the segment are exhausted (the segments of the input
\* hold at least one point): the raw file is closed, the summary is
\* printed and the histogram table is written.  The table's rows are the
\* four arrays as they stand, with NormalizedCount and the quartiles.
EndSegment ==
  /\ pc = "points"
  /\ pointIndex > 0
  /\ LET stat == Statistics(sunImpactDistributionTime,
                            blindingSunImpactDistributionTime)
     IN  /\ summary' =
               [published |-> TRUE,
                stat |-> stat,
                maxSunImpactDistribution |-> Max(sunImpactDistribution)]
         /\ finished' = Append(finished,
               [track |-> trackIndex, segment |-> segIndex,
                points |-> points, samples |-> samples,
                count |-> sunImpactDistribution,
                timeSum |-> sunImpactDistributionTime,
                deepTimeSum |-> deepSunImpactDistributionTime,
                blindingTimeSum |-> blindingSunImpactDistributionTime,
                rows |-> csvHeadings,
                stat |-> stat])
  /\ pc' = "segments"
  /\ UNCHANGED <<pauseDetectDuration, currentSunState, trackIndex, segIndex,
                 points, samples, totalPoints, histograms, csvHeadings,
                 gpxOutput, calls, trackStartStates>>

Next ==
  \/ Start
  \/ BeginTrack
  \/ BeginSegment
  \/ EndTrack
  \/ FirstPoint
  \/ SkipPause
  \/ SkipNoMove
  \/ SunDown
  \/ Sample
  \/ EndSegment

Spec == Init /\ [][Next]_vars

\* ------------------------------- a segment out of timestamp order
\* The program has read the first point of the first segment of the
\* first track; the points that follow may be earlier than the point
\* before them.
InitUnordered ==
  /\ pauseDetectDuration \in PauseChoices
  /\ pc = "points"
  /\ currentSunState = Unknown
  /\ trackIndex = 0
  /\ segIndex = 0
  /\ \E lat \in Latitudes : points = <<[t |-> 0, lat |-> lat, lon |-> 0]>>
  /\ samples = <<>>
  /\ totalPoints = 1
  /\ sunImpactDistribution = ZeroBuckets
  /\ sunImpactDistributionTime = ZeroBuckets
  /\ deepSunImpactDistributionTime = ZeroBuckets
  /\ blindingSunImpactDistributionTime = ZeroBuckets
  /\ csvHeadings = <<>>
  /\ gpxOutput = <<NextTrack(0, Unknown, NoPoint)>>
  /\ summary = NoSummary
  /\ finished = <<>>
  /\ calls = <<[arg |-> Unknown, ret |-> TRUE]>>
  /\ trackStartStates = <<Unknown>>

\* The pass over the rest of the segment.
NextUnordered ==
  \/ SkipPauseOf(UnorderedGaps)
  \/ SkipNoMoveOf(UnorderedGaps)
  \/ SunDownOf(UnorderedGaps)
  \/ SampleOf(UnorderedGaps)
  \/ EndSegment

SpecUnordered == InitUnordered /\ [][NextUnordered]_vars

\* ------------------------------------------- the angles of one sample
\* The program has read the first point of the first segment of the
\* first track and is about to read the second one.
InitAngles ==
  /\ pauseDetectDuration = DefaultPauseSeconds
  /\ pc = "angles"
  /\ currentSunState = Unknown
  /\ trackIndex = 0
  /\ segIndex = 0
  /\ \E lat \in Latitudes : points = <<[t |-> 0, lat |-> lat, lon |-> 0]>>
  /\ samples = <<>>
  /\ totalPoints = 1
  /\ sunImpactDistribution = ZeroBuckets
  /\ sunImpactDistributionTime = ZeroBuckets
  /\ deepSunImpactDistributionTime = ZeroBuckets
  /\ blindingSunImpactDistributionTime = ZeroBuckets
  /\ csvHeadings = <<>>
  /\ gpxOutput = <<NextTrack(0, Unknown, NoPoint)>>
  /\ summary = NoSummary
  /\ finished = <<>>
  /\ calls = <<[arg |-> Unknown, ret |-> TRUE]>>
  /\ trackStartStates = <<Unknown>>

\* The second point of the segment, 5 seconds and one degree of longitude
\* after the first, with the sun up: the car heading, the azimuth fixed
\* for the hemisphere, the impact angle, and
\* sunImpactDistribution[int(sunImpactAngle)]++, which panics (index out
\* of range) when the index is not one of the 360 buckets.
ImpactOfPair ==
  /\ pc = "angles"
  /\ \E theta \in AngleThetas, az \in AngleAzimuths :
       LET prev == points[1]
           cur == [t |-> prev.t + 5, lat |-> prev.lat, lon |-> prev.lon + 1]
           carHeading == Normalize360(theta)
           sunAzimuth == FixAzimuth(az, cur.lat)
           sunImpactAngle == ImpactAngle(sunAzimuth, carHeading)
           b == BucketOf(sunImpactAngle)
       IN  /\ points' = Append(points, cur)
           /\ samples' =
                <<[kind |-> "sample", timegap |-> Timegap(prev, cur),
                   carHeading |-> carHeading, sunAzimuth |-> sunAzimuth,
                   sunElevation |-> 20 * Scale,
                   sunImpactAngle |-> sunImpactAngle, state |-> SunUp]>>
           /\ IF b \in Buckets
              THEN /\ sunImpactDistribution' =
                        Accumulate(sunImpactDistribution, b, 1)
                   /\ pc' = "angled"
              ELSE /\ UNCHANGED sunImpactDistribution
                   /\ pc' = "panic"
  /\ totalPoints' = totalPoints + 1
  /\ UNCHANGED <<pauseDetectDuration, currentSunState, trackIndex, segIndex,
                 sunImpactDistributionTime, deepSunImpactDistributionTime,
                 blindingSunImpactDistributionTime, csvHeadings, gpxOutput,
                 summary, finished, calls, trackStartStates>>

NextAngles == ImpactOfPair

SpecAngles == InitAngles /\ [][NextAngles]_vars

\* ------------------------------------------------------------- claims
SkipKinds == {"pause", "nomove"}

\* The state currentSunState held when call i of hasChanged was made.
StateBeforeCall(i) == IF i = 1 THEN InitialSunState ELSE calls[i - 1].arg

\* C1: hasChanged(newState) returns true exactly when newState differs
\* from the current state, and the current state is newState afterwards
\* (unchanged when it returned false); so over the sequence of calls that
\* follows hasChanged(Unknown) it returns true exactly where the state
\* differs from its predecessor.
C1_HasChangedContract ==
  /\ \A i \in 1 .. Len(calls) :
       calls[i].ret = (calls[i].arg # StateBeforeCall(i))
  /\ currentSunState =
       IF calls = <<>> THEN InitialSunState ELSE calls[Len(calls)].arg
  /\ calls # <<>> => calls[1].arg = Unknown

\* C1 witness: after hasChanged(Unknown), one call returned true and a
\* later one false.
C1_Witness ==
  \E i, j \in 2 .. Len(calls) : i < j /\ calls[i].ret /\ ~calls[j].ret

\* C2 (as stated): the current sun state is Unknown at the moment the
\* processing of each input track begins.
C2_UnknownAtEveryTrack ==
  \A k \in 1 .. Len(trackStartStates) : trackStartStates[k] = Unknown

\* The classification of section 4.3 of the specification: 0 <= elevation
\* < 15 is Low or Blinding.
ClaimedSunState(el, impact) ==
  IF el < 0 THEN SunDowned
  ELSE IF (el >= 0) /\ (el < DeepSunElevation * Scale)
       THEN IF (impact < BlindingAngle * Scale)
               \/ (impact > (360 - BlindingAngle) * Scale)
            THEN SunBlinding ELSE SunLow
       ELSE SunUp

\* C3 (as stated): every processed sample gets the state of the priority
\* order Down, Blinding, Low, Up, with elevation exactly 0 Low or Blinding.
C3_ClassificationAsClaimed ==
  \A i \in 1 .. Len(samples) :
    samples[i].kind = "sample" =>
      samples[i].state =
        ClaimedSunState(samples[i].sunElevation, samples[i].sunImpactAngle)

\* The pairs of the current segment, in input order, whose kind is in
\* kinds: pair i is (points[i], points[i+1]).
PairsOfKind(kinds) ==
  SelectSeq([i \in 1 .. Len(samples) |-> i],
            LAMBDA i : samples[i].kind \in kinds)

\* The row the raw csv file gets for pair i.
RowOfPair(i) ==
  [timestamp |-> points[i + 1].t,
   timegap |-> points[i + 1].t - points[i].t,
   lat |-> points[i + 1].lat,
   lon |-> points[i + 1].lon,
   carHeading |-> samples[i].carHeading,
   sunAzimuth |-> samples[i].sunAzimuth,
   sunElevation |-> samples[i].sunElevation,
   sunImpactAngle |-> samples[i].sunImpactAngle]

Timestamps(rows) == [i \in 1 .. Len(rows) |-> rows[i].timestamp]

\* C4 (as stated): the raw record stream holds one row for every pair that
\* is not skipped, Down pairs included, in input order.
C4_RowForEveryUnskippedPair ==
  LET pairs == PairsOfKind({"sample", "down"})
  IN  Timestamps(csvHeadings)
        = [i \in 1 .. Len(pairs) |-> points[pairs[i] + 1].t]

\* C4 (amended): the raw record stream holds exactly one row for every
\* pair that is neither skipped nor Down, in input order; a Down pair gets
\* no row.
C4_RowForEverySunlitPair ==
  LET pairs == PairsOfKind({"sample"})
  IN  csvHeadings = [i \in 1 .. Len(pairs) |-> RowOfPair(pairs[i])]

\* C4 witness: a segment with a Down pair and a pair that got its row.
C4_Witness ==
  /\ Len(samples) = 2
  /\ samples[1].kind = "down"
  /\ samples[2].kind = "sample"
  /\ Len(csvHeadings) = 1

RECURSIVE SumTimegaps(_, _)
SumTimegaps(ss, n) ==
  IF n = 0 THEN 0
  ELSE (IF ss[n].kind = "sample" THEN ss[n].timegap ELSE 0)
       + SumTimegaps(ss, n - 1)

\* C5: after a segment's pass the counts add up to the number of pairs
\* that were neither skipped nor Down, and the time sums to the seconds of
\* exactly those pairs; a pass without such a pair leaves every bucket of
\* the four arrays at 0.
C5_Conservation ==
  (pc = "segments" /\ segIndex >= 0) =>
    /\ Sum(sunImpactDistribution) = Len(PairsOfKind({"sample"}))
    /\ Sum(sunImpactDistributionTime) = SumTimegaps(samples, Len(samples))
    /\ PairsOfKind({"sample"}) = <<>> =>
         /\ sunImpactDistribution = ZeroBuckets
         /\ sunImpactDistributionTime = ZeroBuckets
         /\ deepSunImpactDistributionTime = ZeroBuckets
         /\ blindingSunImpactDistributionTime = ZeroBuckets

\* C5 witness: a finished pass over two sunlit pairs that fell into one
\* bucket.
C5_Witness ==
  /\ pc = "segments"
  /\ Len(samples) = 2
  /\ samples[1].kind = "sample"
  /\ samples[2].kind = "sample"
  /\ BucketOf(samples[1].sunImpactAngle) = BucketOf(samples[2].sunImpactAngle)

\* C5 witness, second case: a finished pass over Down and skipped pairs
\* only.
C5_WitnessAllDown ==
  /\ pc = "segments"
  /\ Len(samples) = 2
  /\ samples[1].kind = "down"
  /\ samples[2].kind \in SkipKinds

\* The classes of a float64 that is not a finite number.
NonFinite == {"NaN", "+Inf", "-Inf"}

\* C6 (as stated): summarization never divides by zero; no NaN or
\* infinity reaches the published peak factor or the normalized counts of
\* the histogram table.
C6_NoNonFinitePublished ==
  summary.published =>
    /\ summary.stat.peakFactor.cls \notin NonFinite
    /\ \A b \in Buckets :
         NormalizedCount(sunImpactDistribution,
                         summary.maxSunImpactDistribution, b).cls
           \notin NonFinite

\* The scenario of C7 in the segment just finished: two points 60 seconds
\* apart.
C7_TwoPointsSixtySeconds ==
  /\ pc = "segments"
  /\ Len(points) = 2
  /\ points[2].t - points[1].t = 60

\* The outcome C7 states: the pair was a valid sample with impact angle 90
\* and state Up; count[90] = 1, timeSum[90] = 60, every other bucket 0.
C7_Outcome ==
  /\ samples[1].kind = "sample"
  /\ samples[1].sunImpactAngle = 90 * Scale
  /\ samples[1].state = SunUp
  /\ sunImpactDistribution = [b \in Buckets |-> IF b = 90 THEN 1 ELSE 0]
  /\ sunImpactDistributionTime = [b \in Buckets |-> IF b = 90 THEN 60 ELSE 0]

\* What the bearing and the ephemeris gave for the pair: heading 0,
\* corrected azimuth 90, elevation 20.  For a skipped pair main computed
\* none of them, and the scenario is taken to be the one of the claim.
C7_Observed ==
  \/ samples[1].kind \in SkipKinds
  \/ /\ samples[1].carHeading = 0
     /\ samples[1].sunAzimuth = 90 * Scale
     /\ samples[1].sunElevation = 20 * Scale

LastOutputPoint(tracks) ==
  LET trk == tracks[Len(tracks)]
  IN  IF trk.segments = <<>> THEN NoPoint
      ELSE LET seg == trk.segments[Len(trk.segments)]
           IN  IF seg = <<>> THEN NoPoint ELSE seg[Len(seg)]

\* A step of the point loop that reads the second or a later point of the
\* segment.
ReadsPair == pc = "points" /\ Len(points) >= 1 /\ Len(points') = Len(points) + 1

\* The pair read by such a step is one the claim calls skipped: its time
\* gap is above the threshold or its longitude delta is 0.
PairToSkip ==
  LET prev == points[Len(points)]
      cur == points'[Len(points')]
  IN  (cur.t - prev.t > pauseDetectDuration) \/ (cur.lon - prev.lon = 0)

Observed(ss) ==
  [i \in 1 .. Len(ss) |->
     <<ss[i].kind \in SkipKinds, ss[i].carHeading, ss[i].sunAzimuth,
       ss[i].sunElevation>>]

\* Two finished segments had the same points (and so the same bearings
\* and sun positions).
SameSegment(f, g) ==
  /\ f.points = g.points
  /\ Observed(f.samples) = Observed(g.samples)

\* C9: the histograms and the summary of a segment depend on its points
\* and the pause threshold only: two passes of one run over the same
\* segment give the same four arrays and the same quartiles, range, max
\* and blinding sum.
C9_SameSegmentSameResult ==
  \A i, j \in 1 .. Len(finished) :
    (i < j /\ SameSegment(finished[i], finished[j])) =>
      /\ finished[i].count = finished[j].count
      /\ finished[i].timeSum = finished[j].timeSum
      /\ finished[i].deepTimeSum = finished[j].deepTimeSum
      /\ finished[i].blindingTimeSum = finished[j].blindingTimeSum
      /\ finished[i].stat = finished[j].stat

\* C9 witness: the same segment, with a blinding sample, was passed twice.
C9_Witness ==
  \E i, j \in 1 .. Len(finished) :
    /\ i < j
    /\ SameSegment(finished[i], finished[j])
    /\ \E k \in 1 .. Len(finished[i].samples) :
         finished[i].samples[k].state = SunBlinding
    /\ finished[j].stat.sumSunBlinding > 0

\* A step of the point loop in which hasChanged was called.
CallsHasChanged == pc = "points" /\ Len(calls') = Len(calls) + 1

\* C10: within a segment a new output section is opened exactly when
\* hasChanged returns true for a sample that is not skipped (Down ones
\* included); the section starts with the input point before the sample,
\* followed by the sample's own point; when the pair before was not
\* skipped, that first point is also the last point of the section that
\* is closed.
C10_SectionOpenedOnChange ==
  [][pc = "points" =>
       IF CallsHasChanged /\ calls'[Len(calls')].ret
       THEN /\ Len(gpxOutput') = Len(gpxOutput) + 1
            /\ gpxOutput'[Len(gpxOutput')].label = calls'[Len(calls')].arg
            /\ gpxOutput'[Len(gpxOutput')].segments =
                 << <<PointId(trackIndex, segIndex, pointIndex - 1),
                      PointId(trackIndex, segIndex, pointIndex)>> >>
            /\ (Len(samples) >= 1
                /\ samples[Len(samples)].kind \notin SkipKinds) =>
                 LastOutputPoint(gpxOutput) =
                   PointId(trackIndex, segIndex, pointIndex - 1)
       ELSE Len(gpxOutput') = Len(gpxOutput)]_vars

\* C10 witness: two consecutive pairs were processed, the second one a
\* Down sample that changed the state and opened a section at the point
\* the first one had closed with.
C10_Witness ==
  /\ Len(samples) = 2
  /\ samples[1].kind = "sample"
  /\ samples[2].kind = "down"
  /\ Len(gpxOutput) >= 3
  /\ gpxOutput[Len(gpxOutput)].segments =
       << <<PointId(trackIndex, segIndex, 1),
            PointId(trackIndex, segIndex, 2)>> >>
  /\ LastOutputPoint(SubSeq(gpxOutput, 1, Len(gpxOutput) - 1)) =
       PointId(trackIndex, segIndex, 1)

\* A step of the point loop that processes a sample whose sun is not set.
ProcessesSample ==
  /\ pc = "points"
  /\ Len(samples') = Len(samples) + 1
  /\ samples'[Len(samples')].kind = "sample"

\* What a step added to bucket k of an array.
Added(before, after, k) == after[k] - before[k]

\* C11: a processed sample that is not Down, with bucket b and elapsed
\* seconds e, adds 1 to count[b] and e to timeSum[b]; it adds e to
\* deepTimeSum[b] exactly when its state is Low or Blinding and e to
\* blindingTimeSum[b] exactly when its state is Blinding; no other bucket
\* of any array changes, so an Up sample changes count[b] and timeSum[b]
\* only.
C11_DeepAndBlindingAccumulation ==
  [][ProcessesSample =>
       LET s == samples'[Len(samples')]
           b == s.sunImpactAngle \div Scale
           e == s.timegap
       IN  \A k \in Buckets :
             /\ Added(sunImpactDistribution, sunImpactDistribution', k) =
                  (IF k = b THEN 1 ELSE 0)
             /\ Added(sunImpactDistributionTime,
                      sunImpactDistributionTime', k) =
                  (IF k = b THEN e ELSE 0)
             /\ Added(deepSunImpactDistributionTime,
                      deepSunImpactDistributionTime', k) =
                  (IF k = b /\ s.state \in {SunLow, SunBlinding}
                   THEN e ELSE 0)
             /\ Added(blindingSunImpactDistributionTime,
                      blindingSunImpactDistributionTime', k) =
                  (IF k = b /\ s.state = SunBlinding THEN e ELSE 0)]_vars

\* C11 witness: a segment pass has processed a Blinding and a Low sample;
\* the Blinding one is in the deep and the blinding array, the Low one in
\* the deep array only.
C11_Witness ==
  \E i, j \in 1 .. Len(samples) :
    /\ samples[i].kind = "sample" /\ samples[i].state = SunBlinding
    /\ samples[j].kind = "sample" /\ samples[j].state = SunLow
    /\ blindingSunImpactDistributionTime[samples[i].sunImpactAngle \div Scale] > 0
    /\ deepSunImpactDistributionTime[samples[i].sunImpactAngle \div Scale] > 0
    /\ deepSunImpactDistributionTime[samples[j].sunImpactAngle \div Scale] > 0
    /\ blindingSunImpactDistributionTime[samples[j].sunImpactAngle \div Scale] = 0

\* C12: for every car heading in [0, 360), every azimuth the ephemeris
\* returns and both hemispheres, the impact angle lies in [0, 360) and
\* its bucket int(sunImpactAngle) is one of the 360 buckets, so that the
\* indexing never goes out of bounds.
C12_BucketInBounds ==
  (/\ pc \in {"angled", "panic"}
   /\ samples[1].carHeading >= 0
   /\ samples[1].carHeading < 360 * Scale) =>
    /\ samples[1].sunImpactAngle >= 0
    /\ samples[1].sunImpactAngle < 360 * Scale
    /\ (samples[1].sunImpactAngle \div Scale) \in Buckets
    /\ pc # "panic"

\* C13: in every state of a segment pass every bucket of timeSum,
\* deepTimeSum and blindingTimeSum is >= 0, whatever the points of the
\* input are (the pass rejects the pairs whose gap is above the pause
\* threshold and does not look at the order of the timestamps).
C13_TimeSumsNeverNegative ==
  \A b \in Buckets :
    /\ sunImpactDistributionTime[b] >= 0
    /\ deepSunImpactDistributionTime[b] >= 0
    /\ blindingSunImpactDistributionTime[b] >= 0

\* A step of the point loop that appends the point of a sample, Down or
\* not, to the output.
AppendsSamplePoint ==
  /\ pc = "points"
  /\ Len(samples') = Len(samples) + 1
  /\ samples'[Len(samples')].kind \notin SkipKinds

\* The start of an input track.
StartsTrack == pc = "tracks" /\ pc' = "segments"

\* C14: the point of every sample is appended to the output section that
\* is the last one at that moment, and the label of that section is the
\* sun state classified for the sample; the label of a section never
\* changes once the section exists; the section opened at the start of
\* an input track is labelled with the state that is current then, so
\* that the same holds for the samples that follow without a change of
\* state.
C14_PointInSectionOfItsState ==
  [][/\ AppendsSamplePoint =>
          /\ gpxOutput'[Len(gpxOutput')].label =
               samples'[Len(samples')].state
          /\ LastOutputPoint(gpxOutput') =
               PointId(trackIndex, segIndex, pointIndex)
     /\ StartsTrack =>
          /\ Len(gpxOutput') = Len(gpxOutput) + 1
          /\ gpxOutput'[Len(gpxOutput')].label = currentSunState
          /\ gpxOutput'[Len(gpxOutput')].segments = <<>>
     /\ Len(gpxOutput') >= Len(gpxOutput)
     /\ \A i \in 1 .. Len(gpxOutput) :
          gpxOutput'[i].label = gpxOutput[i].label]_vars

\* C14 witness: the second input track began in a state left by the
\* first one, and its first sample, in that same state, went into the
\* section opened at the start of the track.
C14_Witness ==
  /\ trackIndex = 1
  /\ pc = "points"
  /\ Len(samples) = 1
  /\ samples[1].kind = "sample"
  /\ trackStartStates[2] = samples[1].state
  /\ gpxOutput[Len(gpxOutput)].label = samples[1].state
  /\ gpxOutput[Len(gpxOutput)].segments = << <<PointId(1, 0, 1)>> >>

====
